---------------------------- MODULE Spec2Model ----------------------------
(***************************************************************************)
(* The default search plugin of vendure: the search index that             *)
(* FulltextSearchService keeps in step with the product catalog, and the   *)
(* queries MysqlSearchStrategy runs against it.                            *)
(*                                                                         *)
(* Strings are sequences of one-character strings, so that LIKE, toString  *)
(* and length are computed and not assumed.  An absent value (null,        *)
(* undefined, a row that was not found) is the empty set and a present one *)
(* a one-element set.  The index table is a bag of rows, so that a write   *)
(* which inserted where it should replace would be visible.                *)
(***************************************************************************)
EXTENDS Integers, Sequences, FiniteSets, Bags, TLC

(***************************************************************************)
(* Bounds of the model.                                                    *)
(***************************************************************************)
\* operations (catalog mutations, reindex, checkIndex) started in a behaviour
MaxOps == 3
\* notifications published and not yet handled
MaxPending == 1

(***************************************************************************)
(* The catalog the model runs on.                                          *)
(***************************************************************************)
ProductIds == {1, 2}
VariantIds == {1, 2}
FacetValueIds == {1, 2, 3}
Languages == {"en", "de"}

\* the facet each facet value belongs to: values 1 and 2 share facet 1
FacetOf(fv) == IF fv = 3 THEN 2 ELSE 1

\* the languages each entity has a translation for; variant 2 has no "de"
ProductTranslations(p) == Languages
VariantTranslations(v) == IF v = 2 THEN {"en"} ELSE Languages

Sku(v) == IF v = 1 THEN <<"a", "b", "c">> ELSE <<"c", "d">>
Price(v) == v * 100
Slug(p) == IF p = 1 THEN <<"p", "a">> ELSE <<"p", "b">>
\* a translated text is a sequence of words
ProductName(p, l) == IF l = "en" THEN << <<"a", "b", "c">> >> ELSE << <<"a", "b", "d">> >>
ProductDescription(p, l) == IF p = 1 THEN << <<"c", "d">>, <<"a", "b", "c">> >> ELSE << <<"c", "d">> >>
VariantName(v, l) == IF v = 2 THEN << <<"c", "d">> >> ELSE << <<"a", "b", "c">>, <<"c", "d">> >>
\* product 1 has a featured asset, product 2 and the variants have none
ProductAsset(p) == IF p = 1 THEN {<<"i", "1">>} ELSE {}
VariantAsset(v) == {}

(***************************************************************************)
(* The state.                                                              *)
(***************************************************************************)
VARIABLES
    products,   \* table Product: id -> [deletedAt, facetValues]
    variants,   \* table ProductVariant: id -> [productId (a set), facetValues]
    index,      \* table SearchIndexItem: a bag of rows
    pending,    \* bag of published CatalogModificationEvents not yet handled
    ops,        \* operations started so far
    last,       \* the operation that ran last and what it reported
    query,      \* the query a search strategy ran last, and its result
    service,    \* the FulltextSearchService the constructor left
    calls       \* the calls of update and reindex in flight, each at an await

vars == <<products, variants, index, pending, ops, last, query, service, calls>>

(***************************************************************************)
(* Helpers for sequences and strings.                                      *)
(***************************************************************************)
Range(s) == {s[i] : i \in 1..Len(s)}

\* the elements of a set of numbers in ascending order
RECURSIVE SortedSeq(_)
SortedSeq(S) ==
    IF S = {} THEN <<>>
    ELSE LET m == CHOOSE x \in S : \A y \in S : x <= y
         IN <<m>> \o SortedSeq(S \ {m})

Digit(d) == CASE d = 0 -> "0" [] d = 1 -> "1" [] d = 2 -> "2" [] d = 3 -> "3"
              [] d = 4 -> "4" [] d = 5 -> "5" [] d = 6 -> "6" [] d = 7 -> "7"
              [] d = 8 -> "8" [] OTHER -> "9"

\* Number.prototype.toString of a non-negative id
RECURSIVE toString(_)
toString(n) == IF n < 10 THEN <<Digit(n)>> ELSE toString(n \div 10) \o <<Digit(n % 10)>>

\* every element of xs once, in the order of its first occurrence
RECURSIVE unique(_)
unique(xs) ==
    IF xs = <<>> THEN <<>>
    ELSE LET init == unique(SubSeq(xs, 1, Len(xs) - 1))
             x == xs[Len(xs)]
         IN IF x \in Range(init) THEN init ELSE Append(init, x)

(***************************************************************************)
(* Entities as the repository loads them.                                  *)
(***************************************************************************)
FacetValueEntity(fv) == [id |-> fv, facet |-> [id |-> FacetOf(fv)]]

\* a facetValues relation: the joined rows, in id order
LoadFacetValues(S) ==
    LET ids == SortedSeq(S) IN [i \in 1..Len(ids) |-> FacetValueEntity(ids[i])]

\* a Product with featuredAsset, facetValues, facetValues.facet and its
\* (eager) translations
ProductEntity(p) ==
    [id |-> p,
     deletedAt |-> products[p].deletedAt,
     slug |-> Slug(p),
     translations |-> {[languageCode |-> l, name |-> ProductName(p, l),
                        description |-> ProductDescription(p, l)] :
                       l \in ProductTranslations(p)},
     featuredAsset |-> {[preview |-> a] : a \in ProductAsset(p)},
     facetValues |-> LoadFacetValues(products[p].facetValues)]

\* a ProductVariant loaded with variantRelations; product is the empty set
\* when the variant row references no product
VariantEntity(v) ==
    [id |-> v,
     sku |-> Sku(v),
     price |-> Price(v),
     translations |-> {[languageCode |-> l, name |-> VariantName(v, l)] :
                       l \in VariantTranslations(v)},
     featuredAsset |-> {[preview |-> a] : a \in VariantAsset(v)},
     facetValues |-> LoadFacetValues(variants[v].facetValues),
     product |-> {ProductEntity(p) : p \in variants[v].productId \cap DOMAIN products}]

\* the ids of the variants of product p (the relation 'variants')
VariantsOf(p) == {v \in DOMAIN variants : p \in variants[v].productId}

\* getRepository(Product).findOne(id, {relations: ['variants']})
findOneProduct(id) ==
    {[id |-> p, deletedAt |-> products[p].deletedAt, variants |-> SortedSeq(VariantsOf(p))] :
     p \in {id} \cap DOMAIN products}

\* getRepository(ProductVariant).findByIds(ids, {relations: variantRelations})
findByIds(ids) ==
    LET found == SortedSeq(Range(ids) \cap DOMAIN variants)
    IN [i \in 1..Len(found) |-> VariantEntity(found[i])]

\* getRepository(ProductVariant).findOne(id, {relations: variantRelations})
findOneVariant(id) == {VariantEntity(v) : v \in {id} \cap DOMAIN variants}

\* reindex's query: the variants left-joined with their relations, where
\* variants_product.deletedAt IS NULL (true of a variant with no product row)
reindexQuery ==
    LET keep == {v \in DOMAIN variants :
                    \A p \in variants[v].productId \cap DOMAIN products :
                        ~products[p].deletedAt}
        ids == SortedSeq(keep)
    IN [i \in 1..Len(ids) |-> VariantEntity(ids[i])]

(***************************************************************************)
(* Denormalization: a variant becomes a SearchIndexItem.                   *)
(***************************************************************************)
\* translateEntity of one entity: its fields with the translation of
\* languageCode; the empty set when there is no such translation (it throws)
translateEntity(e, languageCode) ==
    {[entity |-> e, translation |-> t] :
     t \in {x \in e.translations : x.languageCode = languageCode}}

\* translateDeep(v, languageCode, ['product']): the variant and, when it has
\* one, its product, translated; the empty set when either throws
translateDeep(v, languageCode) ==
    LET tv == translateEntity(v, languageCode)
        tp == UNION {translateEntity(p, languageCode) : p \in v.product}
    IN IF tv = {} \/ (v.product # {} /\ tp = {}) THEN {}
       ELSE {[id |-> v.id, sku |-> v.sku, price |-> v.price,
              name |-> t.translation.name,
              featuredAsset |-> v.featuredAsset,
              facetValues |-> v.facetValues,
              product |-> {[id |-> q.entity.id, slug |-> q.entity.slug,
                            name |-> q.translation.name,
                            description |-> q.translation.description,
                            featuredAsset |-> q.entity.featuredAsset,
                            facetValues |-> q.entity.facetValues] : q \in tp}] :
             t \in tv}

\* the facet ids of a variant and its product (v.product is not null here)
getFacetIds_variantOnly(variant, product) ==
    unique([i \in 1..Len(variant.facetValues) |-> toString(variant.facetValues[i].facet.id)])
getFacetIds(variant, product) ==
    LET variantFacetIds == [i \in 1..Len(variant.facetValues) |->
                               toString(variant.facetValues[i].facet.id)]
        productFacetIds == [i \in 1..Len(product.facetValues) |->
                               toString(product.facetValues[i].facet.id)]
    IN unique(variantFacetIds \o productFacetIds)

getFacetValueIds(variant, product) ==
    LET variantFacetValueIds == [i \in 1..Len(variant.facetValues) |->
                                    toString(variant.facetValues[i].id)]
        productFacetValueIds == [i \in 1..Len(product.facetValues) |->
                                    toString(product.facetValues[i].id)]
    IN unique(variantFacetValueIds \o productFacetValueIds)

Preview(asset) == IF asset = {} THEN <<>> ELSE (CHOOSE a \in asset : TRUE).preview

\* new SearchIndexItem({...}) of a translated variant: the empty set when
\* v.product is null (reading v.product.slug throws a TypeError)
SearchIndexItem(v, languageCode) ==
    {[sku |-> v.sku,
      slug |-> p.slug,
      price |-> v.price,
      languageCode |-> languageCode,
      productVariantId |-> v.id,
      productId |-> p.id,
      productName |-> p.name,
      description |-> p.description,
      productVariantName |-> v.name,
      productPreview |-> Preview(p.featuredAsset),
      productVariantPreview |-> Preview(v.featuredAsset),
      facetIds |-> getFacetIds(v, p),
      facetValueIds |-> getFacetValueIds(v, p)] : p \in v.product}

(***************************************************************************)
(* The index table.                                                        *)
(***************************************************************************)
SameKey(r, item) ==
    r.productVariantId = item.productVariantId /\ r.languageCode = item.languageCode

\* the table idx cut down to the rows in keep
Rows(idx, keep) == [r \in keep |-> idx[r]]

\* getRepository(SearchIndexItem).save(items): each item replaces the row of
\* its primary key (productVariantId, languageCode) or is inserted
RECURSIVE save_insertOnly(_, _)
save_insertOnly(idx, items) ==
    IF items = <<>> THEN idx
    ELSE save_insertOnly(idx (+) SetToBag({Head(items)}), Tail(items))
RECURSIVE save(_, _)
save(idx, items) ==
    IF items = <<>> THEN idx
    ELSE LET item == Head(items)
             others == Rows(idx, {r \in DOMAIN idx : ~SameKey(r, item)})
         IN save(others (+) SetToBag({item}), Tail(items))

\* saveSearchIndexItems: both maps run before the save, so one variant that
\* throws leaves the table as it was and rejects the call
saveSearchIndexItems(idx, languageCode, vs) ==
    LET translated == [i \in 1..Len(vs) |-> translateDeep(vs[i], languageCode)]
        items == [i \in 1..Len(vs) |->
                     UNION {SearchIndexItem(t, languageCode) : t \in translated[i]}]
    IN IF \E i \in 1..Len(vs) : items[i] = {}
       THEN [threw |-> TRUE, index |-> idx]
       ELSE [threw |-> FALSE,
             index |-> save(idx, [i \in 1..Len(vs) |-> CHOOSE x \in items[i] : TRUE])]

\* removeSearchIndexItems: delete by the composite keys (id, languageCode)
removeSearchIndexItems_blanket(idx, languageCode, variantIds) ==
    Rows(idx, {r \in DOMAIN idx : r.productVariantId \notin Range(variantIds)})
removeSearchIndexItems(idx, languageCode, variantIds) ==
    Rows(idx, {r \in DOMAIN idx : ~(r.productVariantId \in Range(variantIds)
                                     /\ r.languageCode = languageCode)})

\* getRepository(SearchIndexItem).delete({ languageCode })
deleteByLanguage_none(idx, languageCode) == idx
deleteByLanguage(idx, languageCode) ==
    Rows(idx, {r \in DOMAIN idx : r.languageCode # languageCode})

\* getRepository(SearchIndexItem).count({where: {languageCode}})
count(idx, languageCode) ==
    BagCardinality(Rows(idx, {r \in DOMAIN idx : r.languageCode = languageCode}))

(***************************************************************************)
(* The operations of FulltextSearchService, each run to completion.        *)
(***************************************************************************)
\* update(ctx, updatedEntity): the table after it, and whether it rejected
update(idx, languageCode, updatedEntity) ==
    LET isProduct == updatedEntity.type = "Product"
        product == IF isProduct THEN findOneProduct(updatedEntity.id) ELSE {}
        variant == IF isProduct THEN {} ELSE findOneVariant(updatedEntity.id)
        removedVariantIds ==
            IF \E p \in product : p.deletedAt
            THEN (CHOOSE p \in product : TRUE).variants
            ELSE <<>>
        updatedVariants ==
            IF isProduct
            THEN IF \E p \in product : ~p.deletedAt
                 THEN findByIds((CHOOSE p \in product : TRUE).variants)
                 ELSE <<>>
            ELSE IF variant # {} THEN <<CHOOSE v \in variant : TRUE>> ELSE <<>>
        saved == IF Len(updatedVariants) > 0
                 THEN saveSearchIndexItems(idx, languageCode, updatedVariants)
                 ELSE [threw |-> FALSE, index |-> idx]
    IN IF saved.threw THEN saved
       ELSE IF Len(removedVariantIds) > 0
            THEN [threw |-> FALSE,
                  index |-> removeSearchIndexItems(saved.index, languageCode, removedVariantIds)]
            ELSE saved

\* reindex(languageCode): the table after it, whether it rejected, and the
\* report it returned (timeTaken, a clock difference, is left out).  The
\* delete is not undone when the save after it rejects.
reindex(idx, languageCode) ==
    LET vs == reindexQuery
        deleted == deleteByLanguage(idx, languageCode)
        saved == saveSearchIndexItems(deleted, languageCode, vs)
    IN [threw |-> saved.threw,
        index |-> saved.index,
        report |-> IF saved.threw THEN {}
                   ELSE {[success |-> TRUE, indexedItemCount |-> Len(vs)]}]

\* checkIndex(languageCode): reindexCalls counts the reindex calls it made
checkIndex_anyLanguage(idx, languageCode) ==
    IF BagCardinality(idx) = 0
    THEN LET r == reindex(idx, languageCode)
         IN [threw |-> r.threw, index |-> r.index, reindexCalls |-> 1]
    ELSE [threw |-> FALSE, index |-> idx, reindexCalls |-> 0]
checkIndex_always(idx, languageCode) ==
    LET r == reindex(idx, languageCode)
    IN [threw |-> r.threw, index |-> r.index, reindexCalls |-> 1]
checkIndex(idx, languageCode) ==
    LET indexSize == count(idx, languageCode)
    IN IF indexSize = 0
       THEN LET r == reindex(idx, languageCode)
            IN [threw |-> r.threw, index |-> r.index, reindexCalls |-> 1]
       ELSE [threw |-> FALSE, index |-> idx, reindexCalls |-> 0]

(***************************************************************************)
(* The constructor of FulltextSearchService.                               *)
(***************************************************************************)
\* connection.options.type: the five types the switch names and two others
DatabaseTypes == {"mysql", "mariadb", "sqlite", "sqljs", "postgres", "mongodb", "oracle"}

\* the switch of the constructor: the strategy it assigns, none when it throws
selectStrategy_default(type) ==
    CASE type \in {"sqlite", "sqljs"} -> {"SqliteSearchStrategy"}
      [] type = "postgres" -> {"PostgresSearchStrategy"}
      [] OTHER -> {"MysqlSearchStrategy"}
selectStrategy(type) ==
    CASE type \in {"mysql", "mariadb"} -> {"MysqlSearchStrategy"}
      [] type \in {"sqlite", "sqljs"} -> {"SqliteSearchStrategy"}
      [] type = "postgres" -> {"PostgresSearchStrategy"}
      [] OTHER -> {}

NotConstructed ==
    [type |-> "", subscribed |-> FALSE, searchStrategy |-> {}, threw |-> {}, instance |-> FALSE]

\* new FulltextSearchService(connection, eventBus, facetValueService): it
\* subscribes to the event bus, then assigns the strategy or throws; the
\* caller holds an instance only when it did not throw
construct(type) ==
    LET strategy == selectStrategy(type)
    IN [type |-> type,
        subscribed |-> TRUE,
        searchStrategy |-> strategy,
        threw |-> IF strategy = {}
                  THEN {"error.database-not-supported-by-default-search-plugin"}
                  ELSE {},
        instance |-> strategy # {}]

(***************************************************************************)
(* Actions.                                                                *)
(***************************************************************************)
NoEntity == [type |-> "none", id |-> 0]

\* what `last` records of an operation; afterReindex says of a checkIndex that
\* the operation right before it was a reindex of the same language that
\* ran to completion
Ran(op, languageCode, entity, threw, report, reindexCalls) ==
    [op |-> op, languageCode |-> languageCode, entity |-> entity, threw |-> threw,
     report |-> report, reindexCalls |-> reindexCalls,
     afterReindex |-> /\ op = "checkIndex"
                      /\ last.op = "reindex"
                      /\ ~last.threw
                      /\ last.languageCode = languageCode]

CatalogModificationEvent(languageCode, type, id) ==
    [ctx |-> [languageCode |-> languageCode], entity |-> [type |-> type, id |-> id]]

\* eventBus.publish: the event waits for its subscriber
publish(event) == pending (+) SetToBag({event})

CanStart == ops < MaxOps
CanPublish == BagCardinality(pending) < MaxPending

\* ProductService.softDelete(ctx, productId)
SoftDelete(languageCode, productId) ==
    /\ CanStart /\ CanPublish
    /\ productId \in DOMAIN products
    /\ products' = [products EXCEPT ![productId].deletedAt = TRUE]
    /\ pending' = publish(CatalogModificationEvent(languageCode, "Product", productId))
    /\ ops' = ops + 1
    /\ last' = Ran("softDelete", languageCode, [type |-> "Product", id |-> productId],
                   FALSE, {}, 0)
    /\ UNCHANGED <<variants, index, query, service, calls>>

\* the facetValueIds an UpdateProductInput may carry: none, or a list
FacetValueInputs == {{}, {{1, 3}}}

\* ProductService.update(ctx, input)
ProductUpdate(languageCode, productId, facetValueIds) ==
    /\ CanStart /\ CanPublish
    /\ productId \in DOMAIN products
    /\ products' = IF facetValueIds = {} THEN products
                   ELSE [products EXCEPT ![productId].facetValues =
                            CHOOSE ids \in facetValueIds : TRUE]
    /\ pending' = publish(CatalogModificationEvent(languageCode, "Product", productId))
    /\ ops' = ops + 1
    /\ last' = Ran("productUpdate", languageCode, [type |-> "Product", id |-> productId],
                   FALSE, {}, 0)
    /\ UNCHANGED <<variants, index, query, service, calls>>

\* a mutation of a product variant publishes its event
VariantModified(languageCode, variantId) ==
    /\ CanStart /\ CanPublish
    /\ variantId \in DOMAIN variants
    /\ pending' = publish(CatalogModificationEvent(languageCode, "ProductVariant", variantId))
    /\ ops' = ops + 1
    /\ last' = Ran("variantModified", languageCode,
                   [type |-> "ProductVariant", id |-> variantId], FALSE, {}, 0)
    /\ UNCHANGED <<products, variants, index, query, service, calls>>

\* the removal of a product variant: its row is gone and its event published
VariantRemoved(languageCode, variantId) ==
    /\ CanStart /\ CanPublish
    /\ variantId \in DOMAIN variants
    /\ variants' = [v \in DOMAIN variants \ {variantId} |-> variants[v]]
    /\ pending' = publish(CatalogModificationEvent(languageCode, "ProductVariant", variantId))
    /\ ops' = ops + 1
    /\ last' = Ran("variantRemoved", languageCode,
                   [type |-> "ProductVariant", id |-> variantId], FALSE, {}, 0)
    /\ UNCHANGED <<products, index, query, service, calls>>

\* the subscriber of CatalogModificationEvent handles one published event
Update(event) ==
    /\ BagIn(event, pending)
    /\ event.entity.type \in {"Product", "ProductVariant"}
    /\ LET r == update(index, event.ctx.languageCode, event.entity)
       IN /\ index' = r.index
          /\ last' = Ran("update", event.ctx.languageCode, event.entity, r.threw, {}, 0)
    /\ pending' = pending (-) SetToBag({event})
    /\ UNCHANGED <<products, variants, ops, query, service, calls>>

Reindex(languageCode) ==
    /\ CanStart
    /\ LET r == reindex(index, languageCode)
       IN /\ index' = r.index
          /\ last' = Ran("reindex", languageCode, NoEntity, r.threw, r.report, 0)
    /\ ops' = ops + 1
    /\ UNCHANGED <<products, variants, pending, query, service, calls>>

CheckIndex(languageCode) ==
    /\ CanStart
    /\ LET r == checkIndex(index, languageCode)
       IN /\ index' = r.index
          /\ last' = Ran("checkIndex", languageCode, NoEntity, r.threw, {}, r.reindexCalls)
    /\ ops' = ops + 1
    /\ UNCHANGED <<products, variants, pending, query, service, calls>>

(***************************************************************************)
(* MysqlSearchStrategy: the queries against the index table.               *)
(***************************************************************************)
minTermLength == 2

\* a SearchInput: each optional field is the empty set or a one-element set
NoInput == [term |-> {}, facetIds |-> {}, groupByProduct |-> {}, take |-> {},
            skip |-> {}, sort |-> {}]
NoQuery == [op |-> "none", input |-> NoInput, items |-> <<>>, totalItems |-> 0,
            facetValueIds |-> <<>>]

\* s LIKE pattern: % stands for any string, _ for any one character
RECURSIVE Like(_, _)
Like(str, pattern) ==
    IF pattern = <<>> THEN str = <<>>
    ELSE IF Head(pattern) = "%"
         THEN Like(str, Tail(pattern)) \/ (str # <<>> /\ Like(Tail(str), pattern))
         ELSE /\ str # <<>>
              /\ (Head(pattern) = "_" \/ Head(pattern) = Head(str))
              /\ Like(Tail(str), Tail(pattern))

\* the parameter like_term: `%${term}%`
LikeTerm(term) == <<"%">> \o term \o <<"%">>

\* MATCH (column) AGAINST (:term), the store's fulltext rank of a text: here
\* the number of its words that are the term; the predicate holds when it
\* is not 0
Match(text, term) == Cardinality({i \in 1..Len(text) : text[i] = term})

\* FIND_IN_SET(id, facetValueIds)
FindInSet(id, list) == \E i \in 1..Len(list) : list[i] = id

\* `term && term.length > this.minTermLength`
TermApplies(input) == \E t \in input.term : Len(t) > minTermLength

\* the WHERE clause applyTermAndFilters builds
Where_anyFacet(input, r) ==
    /\ TermApplies(input) =>
          \E t \in input.term :
              \/ Like(r.sku, LikeTerm(t))
              \/ Match(r.productName, t) > 0
              \/ Match(r.productVariantName, t) > 0
              \/ Match(r.description, t) > 0
    /\ \A ids \in input.facetIds :
          Len(ids) > 0 => \E i \in 1..Len(ids) : FindInSet(ids[i], r.facetValueIds)
Where(input, r) ==
    /\ TermApplies(input) =>
          \E t \in input.term :
              \/ Like(r.sku, LikeTerm(t))
              \/ Match(r.productName, t) > 0
              \/ Match(r.productVariantName, t) > 0
              \/ Match(r.description, t) > 0
    /\ \A ids \in input.facetIds :
          \A i \in 1..Len(ids) : FindInSet(ids[i], r.facetValueIds)

\* twice the selected column score (the weights are 10, 2, 1.5 and 1); 0
\* when the query selects no score
Score2(input, r) ==
    IF TermApplies(input)
    THEN LET t == CHOOSE t \in input.term : TRUE
         IN (IF Like(r.sku, LikeTerm(t)) THEN 20 ELSE 0)
            + 4 * Match(r.productName, t)
            + 3 * Match(r.productVariantName, t)
            + 2 * Match(r.description, t)
    ELSE 0

\* the rows of the table, one per copy
Table(idx) == UNION {{[row |-> r, copy |-> k] : k \in 1..idx[r]} : r \in DOMAIN idx}

\* the row sets the query of applyTermAndFilters may yield: the rows WHERE
\* keeps and, with GROUP BY productId, one of them per product (which one
\* the store does not say)
applyTermAndFilters_ungrouped(idx, input) ==
    {{x \in Table(idx) : Where(input, x.row)}}
applyTermAndFilters(idx, input) ==
    LET kept == {x \in Table(idx) : Where(input, x.row)}
        productIds == {x.row.productId : x \in kept}
    IN IF input.groupByProduct = {TRUE}
       THEN {G \in SUBSET kept :
                \A p \in productIds :
                    Cardinality({x \in G : x.row.productId = p}) = 1}
       ELSE {kept}

\* the order of characters and of strings in the store's collation
CharCode(c) == CASE c = " " -> 0 [] c = "a" -> 1 [] c = "b" -> 2 [] c = "c" -> 3
                 [] c = "d" -> 4 [] OTHER -> 5
RECURSIVE StringLess(_, _)
StringLess(a, b) ==
    IF b = <<>> THEN FALSE
    ELSE IF a = <<>> THEN TRUE
    ELSE IF Head(a) = Head(b) THEN StringLess(Tail(a), Tail(b))
    ELSE CharCode(Head(a)) < CharCode(Head(b))

\* a text as the string stored in its column: the words, a blank between
RECURSIVE Join(_)
Join(text) ==
    IF text = <<>> THEN <<>>
    ELSE IF Len(text) = 1 THEN text[1]
    ELSE text[1] \o <<" ">> \o Join(Tail(text))

\* x sorts strictly before y under ORDER BY: score DESC when a term applies,
\* then productName and price in the directions asked for
SortsBefore(input, x, y) ==
    LET byScore == TermApplies(input)
        sx == Score2(input, x.row)
        sy == Score2(input, y.row)
        nameDir == UNION {srt.name : srt \in input.sort}
        priceDir == UNION {srt.price : srt \in input.sort}
        nx == Join(x.row.productName)
        ny == Join(y.row.productName)
        nameBefore == IF nameDir = {"ASC"} THEN StringLess(nx, ny) ELSE StringLess(ny, nx)
        priceBefore == IF priceDir = {"ASC"} THEN x.row.price < y.row.price
                       ELSE y.row.price < x.row.price
    IN \/ byScore /\ sx > sy
       \/ /\ byScore => sx = sy
          /\ nameDir # {}
          /\ nameBefore
       \/ /\ byScore => sx = sy
          /\ nameDir # {} => nx = ny
          /\ priceDir # {}
          /\ priceBefore

\* the sequences that hold every element of S once
RECURSIVE Orderings(_)
Orderings(S) ==
    IF S = {} THEN {<<>>}
    ELSE UNION {{<<x>> \o rest : rest \in Orderings(S \ {x})} : x \in S}

\* LIMIT take OFFSET skip of a sequence
Page(rows, take, skip) ==
    SubSeq(rows, skip + 1, IF skip + take < Len(rows) THEN skip + take ELSE Len(rows))

\* the query of getSearchResults before take and skip: the sequences of the
\* filtered, grouped rows that agree with its ORDER BY (rows the ORDER BY does
\* not tell apart come in any order)
orderBy(idx, input) ==
    LET ordered(G) == {rows \in Orderings(G) :
                          \A i, j \in 1..Len(rows) :
                              i < j => ~SortsBefore(input, rows[j], rows[i])}
    IN UNION {ordered(G) : G \in applyTermAndFilters(idx, input)}

\* getSearchResults: the row sequences the query may return
getSearchResults(idx, input) ==
    LET take == IF input.take \in {{}, {0}} THEN 25 ELSE CHOOSE n \in input.take : TRUE
        skip == IF input.skip = {} THEN 0 ELSE CHOOSE n \in input.skip : TRUE
    IN {[i \in 1..Len(Page(rows, take, skip)) |-> Page(rows, take, skip)[i].row] :
        rows \in orderBy(idx, input)}

\* getTotalCount: COUNT(*) of the same query
getTotalCount_ungrouped(idx, input) ==
    Cardinality({x \in Table(idx) : Where(input, x.row)})
getTotalCount(idx, input) ==
    LET G == CHOOSE G \in applyTermAndFilters(idx, input) : TRUE
    IN Cardinality(G)

\* a list of strings as one string, a comma between: the column facetValueIds
\* of a row, and GROUP_CONCAT of the column over rows
RECURSIVE JoinComma(_)
JoinComma(strs) ==
    IF strs = <<>> THEN <<>>
    ELSE IF Len(strs) = 1 THEN strs[1]
    ELSE strs[1] \o <<",">> \o JoinComma(Tail(strs))

\* String.prototype.split(',')
RECURSIVE split(_)
split(str) ==
    IF str = <<>> THEN << <<>> >>
    ELSE LET rest == split(Tail(str))
         IN IF Head(str) = "," THEN << <<>> >> \o rest
            ELSE << <<Head(str)>> \o Head(rest) >> \o Tail(rest)

\* MysqlSearchStrategy.getFacetValueIds: the id lists it may return.  It selects
\* GROUP_CONCAT(si.facetValueIds) from the rows applyTermAndFilters keeps (in
\* an order the store does not say); with GROUP BY productId it has one result
\* row per product and getRawOne takes the first one.
strategyGetFacetValueIds(idx, input) ==
    LET kept == {x \in Table(idx) : Where(input, x.row)}
        productIds == {x.row.productId : x \in kept}
        groups == IF input.groupByProduct = {TRUE}
                  THEN {{x \in kept : x.row.productId = p} : p \in productIds}
                  ELSE {kept}
        allFacetValues(G) ==
            {JoinComma([i \in 1..Len(rows) |-> JoinComma(rows[i].row.facetValueIds)]) :
             rows \in Orderings(G)}
        raw == UNION {allFacetValues(G) : G \in groups}
    IN {unique(SelectSeq(split(str), LAMBDA x : x # <<>>)) :
        str \in IF raw = {} THEN {<<>>} ELSE raw}

\* the catalogs a run starts from: variant 1 belongs to product 1, and
\* variant 2 to product 1, to product 2, or to no product at all
InitialVariants ==
    {[v \in VariantIds |->
        [productId |-> IF v = 2 THEN parent2 ELSE {1},
         facetValues |-> IF v = 1 THEN {1} ELSE {2, 3}]] :
     parent2 \in {{1}, {2}, {}}}

Init ==
    /\ products = [p \in ProductIds |->
                      [deletedAt |-> FALSE, facetValues |-> IF p = 1 THEN {} ELSE {3}]]
    /\ variants \in InitialVariants
    /\ index = EmptyBag
    /\ pending = EmptyBag
    /\ ops = 0
    /\ last = [op |-> "none", languageCode |-> "en", entity |-> NoEntity, threw |-> FALSE,
               report |-> {}, reindexCalls |-> 0, afterReindex |-> FALSE]
    /\ query = NoQuery
    /\ service = construct("mysql")
    /\ calls = <<>>

Next ==
    \/ \E l \in Languages, p \in ProductIds : SoftDelete(l, p)
    \/ \E l \in Languages, p \in ProductIds, f \in FacetValueInputs : ProductUpdate(l, p, f)
    \/ \E l \in Languages, v \in VariantIds : VariantModified(l, v)
    \/ \E l \in Languages, v \in VariantIds : VariantRemoved(l, v)
    \/ \E e \in BagToSet(pending) : Update(e)
    \/ \E l \in Languages : Reindex(l)
    \/ \E l \in Languages : CheckIndex(l)

Spec == Init /\ [][Next]_vars


(***************************************************************************)
(* The queries, run on index tables of their own.                          *)
(***************************************************************************)
\* the longest term of a query
MaxTermLen == 3

IndexRow(variantId, productId, sku, productName, productVariantName, description, fvIds) ==
    [sku |-> sku, slug |-> <<"p">> \o toString(productId), price |-> variantId * 100,
     languageCode |-> "en", productVariantId |-> variantId, productId |-> productId,
     productName |-> productName, description |-> description,
     productVariantName |-> productVariantName,
     productPreview |-> <<>>, productVariantPreview |-> <<>>,
     facetIds |-> unique([i \in 1..Len(fvIds) |-> toString(FacetOf(fvIds[i]))]),
     facetValueIds |-> [i \in 1..Len(fvIds) |-> toString(fvIds[i])]]

\* two variants of product 1, one of product 2 and one of product 3
SearchRows ==
    {IndexRow(1, 1, <<"a", "b", "a">>, << <<"a", "b", "a">> >>, << <<"a", "b">> >>,
              << <<"b", "b">> >>, <<1>>),
     IndexRow(2, 1, <<"b", "b", "b">>, << <<"a", "b", "a">> >>, << <<"a", "b", "a">> >>,
              << <<"b", "b">> >>, <<2>>),
     IndexRow(3, 2, <<"a", "b", "a", "b">>, << <<"b", "b">> >>, << <<"b">> >>,
              << <<"b", "b">>, <<"b">> >>, <<1, 2>>),
     IndexRow(4, 3, <<"b", "b", "b">>, << <<"b", "b", "b">> >>, << <<"b", "b">> >>,
              << <<"b">> >>, <<>>)}

\* the strings over a and b of length n, and the terms a query may carry
RECURSIVE StringsOfLen(_)
StringsOfLen(n) ==
    IF n = 0 THEN {<<>>}
    ELSE {Append(w, c) : w \in StringsOfLen(n - 1), c \in {"a", "b"}}
Terms == UNION {StringsOfLen(n) : n \in 0..MaxTermLen}

SearchInputs ==
    [term : {{}} \cup {{t} : t \in Terms},
     facetIds : {{}, {<<>>}, {<< <<"1">> >>}, {<< <<"1">>, <<"2">> >>}, {<< <<"9">> >>}},
     groupByProduct : {{}, {TRUE}},
     take : {{}, {0}, {1}},
     skip : {{}, {1}},
     sort : {{}, {[name |-> {"ASC"}, price |-> {}]}, {[name |-> {}, price |-> {"DESC"}]},
             {[name |-> {"DESC"}, price |-> {"ASC"}]}}]

GetSearchResults(input) ==
    /\ \E items \in getSearchResults(index, input) :
          query' = [op |-> "getSearchResults", input |-> input, items |-> items,
                    totalItems |-> 0, facetValueIds |-> <<>>]
    /\ UNCHANGED <<products, variants, index, pending, ops, last, service, calls>>

GetTotalCount(input) ==
    /\ query' = [op |-> "getTotalCount", input |-> input, items |-> <<>>,
                 totalItems |-> getTotalCount(index, input), facetValueIds |-> <<>>]
    /\ UNCHANGED <<products, variants, index, pending, ops, last, service, calls>>

GetFacetValueIds(input) ==
    /\ \E ids \in strategyGetFacetValueIds(index, input) :
          query' = [op |-> "getFacetValueIds", input |-> input, items |-> <<>>,
                    totalItems |-> 0, facetValueIds |-> ids]
    /\ UNCHANGED <<products, variants, index, pending, ops, last, service, calls>>

SearchInit ==
    /\ products = [p \in ProductIds |-> [deletedAt |-> FALSE, facetValues |-> {}]]
    /\ variants = [v \in VariantIds |-> [productId |-> {1}, facetValues |-> {}]]
    /\ index \in {SetToBag(S) : S \in SUBSET SearchRows}
    /\ pending = EmptyBag
    /\ ops = 0
    /\ last = [op |-> "none", languageCode |-> "en", entity |-> NoEntity, threw |-> FALSE,
               report |-> {}, reindexCalls |-> 0, afterReindex |-> FALSE]
    /\ query = NoQuery
    /\ service = NotConstructed
    /\ calls = <<>>

Construct(type) ==
    /\ service = NotConstructed
    /\ service' = construct(type)
    /\ UNCHANGED <<products, variants, index, pending, ops, last, query, calls>>

\* one query is run in a behaviour, by the strategy of a constructed service
\* (of the strategies, src holds MysqlSearchStrategy)
Idle == query.op = "none"
Usable == service.instance /\ service.searchStrategy = {"MysqlSearchStrategy"}

SearchNext ==
    \/ \E type \in DatabaseTypes : Construct(type)
    \/ Idle /\ Usable /\ \E input \in SearchInputs : GetSearchResults(input)
    \/ Idle /\ Usable /\ \E input \in SearchInputs : GetTotalCount(input)
    \/ Idle /\ Usable /\ \E input \in SearchInputs : GetFacetValueIds(input)

SearchSpec == SearchInit /\ [][SearchNext]_vars

(***************************************************************************)
(* update and reindex as the calls they are: each step runs from one await *)
(* to the next, and the steps of the calls in flight interleave.  A        *)
(* published event starts its handler at once; no handler waits for        *)
(* another.                                                                *)
(***************************************************************************)
\* calls started in a behaviour
MaxCalls == 2

\* call i has returned or rejected
Completed(i) == calls[i].pc \in {"done", "threw"}

\* a call at its first await; product and loaded hold what it has read, and
\* overlaps says that it was made while another call was in flight
NewCall(op, languageCode, entity, pc) ==
    [op |-> op, languageCode |-> languageCode, entity |-> entity, pc |-> pc,
     product |-> {}, loaded |-> <<>>, removedVariantIds |-> <<>>,
     overlaps |-> \E j \in DOMAIN calls : ~Completed(j)]

\* eventBus.publish with the subscriber of the constructor: update is called
subscriber(event) ==
    IF event.entity.type \in {"Product", "ProductVariant"}
    THEN Append(calls, NewCall("update", event.ctx.languageCode, event.entity, "findOne"))
    ELSE calls

CanCall == Len(calls) < MaxCalls
At(i, op, pc) == calls[i].op = op /\ calls[i].pc = pc

\* ProductService.softDelete, its event handed to the subscriber
SoftDeleteCall(languageCode, productId) ==
    /\ CanCall
    /\ productId \in DOMAIN products
    /\ products' = [products EXCEPT ![productId].deletedAt = TRUE]
    /\ calls' = subscriber(CatalogModificationEvent(languageCode, "Product", productId))
    /\ UNCHANGED <<variants, index, pending, ops, last, query, service>>

\* ProductService.update, its event handed to the subscriber
ProductUpdateCall(languageCode, productId, facetValueIds) ==
    /\ CanCall
    /\ productId \in DOMAIN products
    /\ products' = IF facetValueIds = {} THEN products
                   ELSE [products EXCEPT ![productId].facetValues =
                            CHOOSE ids \in facetValueIds : TRUE]
    /\ calls' = subscriber(CatalogModificationEvent(languageCode, "Product", productId))
    /\ UNCHANGED <<variants, index, pending, ops, last, query, service>>

\* a mutation of a product variant, its event handed to the subscriber
VariantModifiedCall(languageCode, variantId) ==
    /\ CanCall
    /\ variantId \in DOMAIN variants
    /\ calls' = subscriber(CatalogModificationEvent(languageCode, "ProductVariant", variantId))
    /\ UNCHANGED <<products, variants, index, pending, ops, last, query, service>>

\* reindex(languageCode) is called
ReindexCall(languageCode) ==
    /\ CanCall
    /\ calls' = Append(calls, NewCall("reindex", languageCode, NoEntity, "getMany"))
    /\ UNCHANGED <<products, variants, index, pending, ops, last, query, service>>

\* update, first await: findOne of the product with its variants, or of the
\* variant with variantRelations
UpdateFindOne(i) ==
    /\ At(i, "update", "findOne")
    /\ LET c == calls[i]
           product == findOneProduct(c.entity.id)
           variant == findOneVariant(c.entity.id)
           removedVariantIds == IF \E p \in product : p.deletedAt
                                THEN (CHOOSE p \in product : TRUE).variants
                                ELSE <<>>
       IN calls' =
            IF c.entity.type = "Product"
            THEN [calls EXCEPT ![i].product = product,
                               ![i].removedVariantIds = removedVariantIds,
                               ![i].pc = IF \E p \in product : ~p.deletedAt THEN "findByIds"
                                         ELSE IF Len(removedVariantIds) > 0 THEN "remove"
                                         ELSE "done"]
            ELSE [calls EXCEPT ![i].loaded = IF variant # {}
                                             THEN <<CHOOSE v \in variant : TRUE>>
                                             ELSE <<>>,
                               ![i].pc = IF variant # {} THEN "save" ELSE "done"]
    /\ UNCHANGED <<products, variants, index, pending, ops, last, query, service>>

\* update, second await of the product branch: findByIds of its variants
UpdateFindByIds(i) ==
    /\ At(i, "update", "findByIds")
    /\ LET updatedVariants == findByIds((CHOOSE p \in calls[i].product : TRUE).variants)
       IN calls' = [calls EXCEPT ![i].loaded = updatedVariants,
                                 ![i].pc = IF Len(updatedVariants) > 0 THEN "save"
                                           ELSE "done"]
    /\ UNCHANGED <<products, variants, index, pending, ops, last, query, service>>

\* update, last await: removeSearchIndexItems
UpdateRemove(i) ==
    /\ At(i, "update", "remove")
    /\ index' = removeSearchIndexItems(index, calls[i].languageCode, calls[i].removedVariantIds)
    /\ calls' = [calls EXCEPT ![i].pc = "done"]
    /\ UNCHANGED <<products, variants, pending, ops, last, query, service>>

\* reindex, first await: getMany of the variants
ReindexGetMany(i) ==
    /\ At(i, "reindex", "getMany")
    /\ calls' = [calls EXCEPT ![i].loaded = reindexQuery, ![i].pc = "delete"]
    /\ UNCHANGED <<products, variants, index, pending, ops, last, query, service>>

\* reindex, second await: the delete of the language
ReindexDelete(i) ==
    /\ At(i, "reindex", "delete")
    /\ index' = deleteByLanguage(index, calls[i].languageCode)
    /\ calls' = [calls EXCEPT ![i].pc = "save"]
    /\ UNCHANGED <<products, variants, pending, ops, last, query, service>>

\* saveSearchIndexItems of what the call has loaded, for update and reindex
Save(i) ==
    /\ calls[i].pc = "save"
    /\ LET r == saveSearchIndexItems(index, calls[i].languageCode, calls[i].loaded)
       IN /\ index' = r.index
          /\ calls' = [calls EXCEPT ![i].pc = IF r.threw THEN "threw" ELSE "done"]
    /\ UNCHANGED <<products, variants, pending, ops, last, query, service>>

\* a step of call i
Step(i) ==
    \/ UpdateFindOne(i)
    \/ UpdateFindByIds(i)
    \/ UpdateRemove(i)
    \/ ReindexGetMany(i)
    \/ ReindexDelete(i)
    \/ Save(i)

\* the index the calls start on: empty, or holding the records of "en"
ConcInit ==
    /\ products = [p \in ProductIds |->
                      [deletedAt |-> FALSE, facetValues |-> IF p = 1 THEN {} ELSE {3}]]
    /\ variants \in InitialVariants
    /\ index \in {EmptyBag, deleteByLanguage(reindex(EmptyBag, "en").index, "de")}
    /\ pending = EmptyBag
    /\ ops = 0
    /\ last = [op |-> "none", languageCode |-> "en", entity |-> NoEntity, threw |-> FALSE,
               report |-> {}, reindexCalls |-> 0, afterReindex |-> FALSE]
    /\ query = NoQuery
    /\ service = construct("mysql")
    /\ calls = <<>>

ConcNext ==
    \/ \E l \in Languages, p \in ProductIds : SoftDeleteCall(l, p)
    \/ \E l \in Languages, p \in ProductIds, f \in FacetValueInputs : ProductUpdateCall(l, p, f)
    \/ \E l \in Languages, v \in VariantIds : VariantModifiedCall(l, v)
    \/ \E l \in Languages : ReindexCall(l)
    \/ \E i \in DOMAIN calls : UpdateFindOne(i)
    \/ \E i \in DOMAIN calls : UpdateFindByIds(i)
    \/ \E i \in DOMAIN calls : UpdateRemove(i)
    \/ \E i \in DOMAIN calls : ReindexGetMany(i)
    \/ \E i \in DOMAIN calls : ReindexDelete(i)
    \/ \E i \in DOMAIN calls : Save(i)

ConcSpec == ConcInit /\ [][ConcNext]_vars

(***************************************************************************)
(* reindex calls alone, over a catalog that does not change.               *)
(***************************************************************************)
ReindexNext ==
    \/ \E l \in Languages : ReindexCall(l)
    \/ \E i \in DOMAIN calls : ReindexGetMany(i)
    \/ \E i \in DOMAIN calls : ReindexDelete(i)
    \/ \E i \in DOMAIN calls : Save(i)

ReindexSpec == ConcInit /\ [][ReindexNext]_vars

\* the store answers every query: while a call is at an await, a step of
\* some call is taken (each call has finitely many steps, so each completes)
ReindexFairSpec == ReindexSpec /\ WF_vars(\E i \in DOMAIN calls : Step(i))

(***************************************************************************)
(* One reindex call and one update call, made in either order, over a      *)
(* catalog that the mutation behind the notification may change.           *)
(***************************************************************************)
NoCallOf(op) == \A i \in DOMAIN calls : calls[i].op # op

RaceNext ==
    \/ \E l \in Languages, p \in ProductIds : NoCallOf("update") /\ SoftDeleteCall(l, p)
    \/ \E l \in Languages, p \in ProductIds, f \in FacetValueInputs :
          NoCallOf("update") /\ ProductUpdateCall(l, p, f)
    \/ \E l \in Languages, v \in VariantIds : NoCallOf("update") /\ VariantModifiedCall(l, v)
    \/ \E l \in Languages : NoCallOf("reindex") /\ ReindexCall(l)
    \/ \E i \in DOMAIN calls : UpdateFindOne(i)
    \/ \E i \in DOMAIN calls : UpdateFindByIds(i)
    \/ \E i \in DOMAIN calls : UpdateRemove(i)
    \/ \E i \in DOMAIN calls : ReindexGetMany(i)
    \/ \E i \in DOMAIN calls : ReindexDelete(i)
    \/ \E i \in DOMAIN calls : Save(i)

RaceSpec == ConcInit /\ [][RaceNext]_vars

(***************************************************************************)
(* search as the call it is, beside the calls that write the index: its    *)
(* two reads are two awaits.  query.op is "searching" while the first read *)
(* is awaited, "counting" while the second is, "search" once it returned.  *)
(***************************************************************************)
\* the inputs of the searches that run beside writes
RaceInputs ==
    {input \in SearchInputs :
        /\ input.term = {} /\ input.facetIds = {} /\ input.sort = {}
        /\ input.skip = {} /\ input.take \in {{}, {1}}}

\* search(ctx, input) is called
Search(input) ==
    /\ Idle /\ Usable
    /\ query' = [NoQuery EXCEPT !.op = "searching", !.input = input]
    /\ UNCHANGED <<products, variants, index, pending, ops, last, service, calls>>

\* search, first await: getSearchResults
SearchGetSearchResults ==
    /\ query.op = "searching"
    /\ \E items \in getSearchResults(index, query.input) :
          query' = [query EXCEPT !.op = "counting", !.items = items]
    /\ UNCHANGED <<products, variants, index, pending, ops, last, service, calls>>

\* search, second await: getTotalCount, and the response is returned
SearchGetTotalCount ==
    /\ query.op = "counting"
    /\ query' = [query EXCEPT !.op = "search",
                              !.totalItems = getTotalCount(index, query.input)]
    /\ UNCHANGED <<products, variants, index, pending, ops, last, service, calls>>

SearchRaceNext ==
    \/ \E input \in RaceInputs : Search(input)
    \/ SearchGetSearchResults
    \/ SearchGetTotalCount
    \/ \E l \in Languages, p \in ProductIds : NoCallOf("update") /\ SoftDeleteCall(l, p)
    \/ \E l \in Languages, p \in ProductIds, f \in FacetValueInputs :
          NoCallOf("update") /\ ProductUpdateCall(l, p, f)
    \/ \E l \in Languages, v \in VariantIds : NoCallOf("update") /\ VariantModifiedCall(l, v)
    \/ \E l \in Languages : NoCallOf("reindex") /\ ReindexCall(l)
    \/ \E i \in DOMAIN calls : UpdateFindOne(i)
    \/ \E i \in DOMAIN calls : UpdateFindByIds(i)
    \/ \E i \in DOMAIN calls : UpdateRemove(i)
    \/ \E i \in DOMAIN calls : ReindexGetMany(i)
    \/ \E i \in DOMAIN calls : ReindexDelete(i)
    \/ \E i \in DOMAIN calls : Save(i)

SearchRaceSpec == ConcInit /\ [][SearchRaceNext]_vars

(***************************************************************************)
(* ProductService.softDelete as the call it is: getEntityOrThrow, the      *)
(* update of deletedAt, and the publish, whose subscriber starts update.   *)
(***************************************************************************)
\* the ids softDelete is called with: those of the products, and one of no row
SoftDeleteIds == ProductIds \cup {9}

\* the softDelete calls made so far
SoftDeleteCalls == {i \in DOMAIN calls : calls[i].op = "softDelete"}

\* softDelete(ctx, productId) is called
SoftDeleteInvoke(languageCode, productId) ==
    /\ Cardinality(SoftDeleteCalls) < MaxCalls
    /\ calls' = Append(calls, NewCall("softDelete", languageCode,
                                      [type |-> "Product", id |-> productId],
                                      "getEntityOrThrow"))
    /\ UNCHANGED <<products, variants, index, pending, ops, last, query, service>>

\* softDelete, first await: getEntityOrThrow rejects when there is no such row
SoftDeleteGetEntityOrThrow(i) ==
    /\ At(i, "softDelete", "getEntityOrThrow")
    /\ calls' = [calls EXCEPT ![i].pc = IF calls[i].entity.id \in DOMAIN products
                                        THEN "update" ELSE "threw"]
    /\ UNCHANGED <<products, variants, index, pending, ops, last, query, service>>

\* softDelete, second await: update({id: productId}, {deletedAt: new Date()})
SoftDeleteUpdate_notPersisted(i) ==
    /\ At(i, "softDelete", "update")
    /\ calls' = [calls EXCEPT ![i].pc = "publish"]
    /\ UNCHANGED <<products, variants, index, pending, ops, last, query, service>>
SoftDeleteUpdate(i) ==
    /\ At(i, "softDelete", "update")
    /\ products' = [p \in DOMAIN products |->
                       IF p = calls[i].entity.id
                       THEN [products[p] EXCEPT !.deletedAt = TRUE]
                       ELSE products[p]]
    /\ calls' = [calls EXCEPT ![i].pc = "publish"]
    /\ UNCHANGED <<variants, index, pending, ops, last, query, service>>

\* softDelete, after the update: the event is published and the call returns
SoftDeletePublish(i) ==
    /\ At(i, "softDelete", "publish")
    /\ calls' = [subscriber(CatalogModificationEvent(calls[i].languageCode, "Product",
                                                     calls[i].entity.id))
                   EXCEPT ![i].pc = "done"]
    /\ UNCHANGED <<products, variants, index, pending, ops, last, query, service>>

SoftDeleteNext ==
    \/ \E l \in Languages, p \in SoftDeleteIds : SoftDeleteInvoke(l, p)
    \/ \E i \in DOMAIN calls : SoftDeleteGetEntityOrThrow(i)
    \/ \E i \in DOMAIN calls : SoftDeleteUpdate(i)
    \/ \E i \in DOMAIN calls : SoftDeletePublish(i)
    \/ \E i \in DOMAIN calls : UpdateFindOne(i)
    \/ \E i \in DOMAIN calls : UpdateRemove(i)

SoftDeleteSpec == ConcInit /\ [][SoftDeleteNext]_vars

(***************************************************************************)
(* What the claims speak of.                                               *)
(***************************************************************************)
\* the number of rows of idx with primary key (v, l)
Copies(idx, v, l) ==
    BagCardinality(Rows(idx, {r \in DOMAIN idx :
                                 r.productVariantId = v /\ r.languageCode = l}))

HasRecord(idx, v, l) == Copies(idx, v, l) > 0

\* the rows of idx of language l, and the others
OfLanguage(idx, l) == Rows(idx, {r \in DOMAIN idx : r.languageCode = l})
NotOfLanguage(idx, l) == Rows(idx, {r \in DOMAIN idx : r.languageCode # l})

ParentOf(v) == variants[v].productId \cap DOMAIN products
ParentDeleted(v) == \E p \in ParentOf(v) : products[p].deletedAt
ParentLive(v) == \E p \in ParentOf(v) : ~products[p].deletedAt

\* the variant and its parent product have a translation for l
Translated(v, l) ==
    /\ l \in VariantTranslations(v)
    /\ \A p \in ParentOf(v) : l \in ProductTranslations(p)

\* the denormalization of v in l fails: no parent product, or no translation
Faulty(v, l) == ParentOf(v) = {} \/ ~Translated(v, l)

\* every published notification has been handled (an operation of this
\* specification runs to completion, so no reindex is ever in flight)
Quiescent == pending = EmptyBag

\* the step is the handling of a notification, a reindex, a checkIndex
UpdateStep == last'.op = "update" /\ pending' # pending
ReindexStep == last'.op = "reindex" /\ ops' # ops
CheckIndexStep == last'.op = "checkIndex" /\ ops' # ops

\* the notifications update can be given, also for ids of no row
AllEntities ==
    {[type |-> "Product", id |-> p] : p \in ProductIds \cup {9}}
    \cup {[type |-> "ProductVariant", id |-> v] : v \in VariantIds \cup {9}}

\* the variants update(ctx, entity) and reindex hand to saveSearchIndexItems
BatchOfUpdate(entity) ==
    IF entity.type = "Product"
    THEN IF \E p \in {entity.id} \cap DOMAIN products : ~products[p].deletedAt
         THEN VariantsOf(entity.id) ELSE {}
    ELSE {entity.id} \cap DOMAIN variants
BatchOfReindex == {v \in DOMAIN variants : ~ParentDeleted(v)}

(***************************************************************************)
(* C1.  A record exists for (variant, language) only if the variant's      *)
(* parent product is not soft-deleted: once update has handled a           *)
(* notification for a product variant whose parent product is soft-deleted *)
(* and nothing is left to handle, the index holds no record of that        *)
(* variant in the notification's language.                                 *)
(***************************************************************************)
C1_NoRecordUnderDeletedProduct ==
    (/\ Quiescent
     /\ last.op = "update"
     /\ last.entity.type = "ProductVariant"
     /\ last.entity.id \in DOMAIN variants
     /\ ParentDeleted(last.entity.id))
    => ~HasRecord(index, last.entity.id, last.languageCode)

(***************************************************************************)
(* C2.  Once update has handled the notification of a soft-deleted         *)
(* product, the index holds no record of any of its variants in any        *)
(* language, and the records of the other products' variants are as they   *)
(* were.                                                                   *)
(***************************************************************************)
C2_SoftDeleteRemovesAllLanguages ==
    [][(/\ UpdateStep
        /\ last'.entity.type = "Product"
        /\ \E p \in {last'.entity.id} \cap DOMAIN products : products[p].deletedAt)
       => LET mine == VariantsOf(last'.entity.id)
          IN /\ \A r \in DOMAIN index' : r.productVariantId \notin mine
             /\ Rows(index', {r \in DOMAIN index' : r.productVariantId \notin mine})
                  = Rows(index, {r \in DOMAIN index : r.productVariantId \notin mine})]_vars

(***************************************************************************)
(* C3.  update is idempotent: in every catalog and index state, for every  *)
(* notification, handling it a second time right after the first leaves    *)
(* the index as the first left it.                                         *)
(***************************************************************************)
C3_UpdateIdempotent ==
    \A l \in Languages, e \in AllEntities :
        LET once == update(index, l, e)
            twice == update(once.index, l, e)
        IN twice.index = once.index /\ twice.threw = once.threw

\* a notification has just been handled, it wrote records, and handling it
\* again changes nothing
C3_Witness ==
    /\ last.op = "update" /\ ~last.threw
    /\ \E v \in BatchOfUpdate(last.entity) : HasRecord(index, v, last.languageCode)
    /\ update(index, last.languageCode, last.entity).index = index

(***************************************************************************)
(* C4.  Every record update or reindex has just written has facetIds equal *)
(* to the duplicate-free union of the facet ids of the variant's and of    *)
(* its parent product's facet values, and facetValueIds equal to the       *)
(* duplicate-free union of their facet-value ids.                          *)
(***************************************************************************)
NoDuplicates(xs) == Cardinality(Range(xs)) = Len(xs)

UnionLaw(r) ==
    LET v == r.productVariantId
        own == variants[v].facetValues
        parent == UNION {products[p].facetValues : p \in ParentOf(v)}
    IN /\ NoDuplicates(r.facetIds)
       /\ NoDuplicates(r.facetValueIds)
       /\ Range(r.facetValueIds) = {toString(fv) : fv \in own \cup parent}
       /\ Range(r.facetIds) = {toString(FacetOf(fv)) : fv \in own \cup parent}

\* the records the last operation wrote
JustWritten ==
    IF last.threw THEN {}
    ELSE CASE last.op = "update" ->
                {r \in DOMAIN index : /\ r.languageCode = last.languageCode
                                      /\ r.productVariantId \in BatchOfUpdate(last.entity)}
           [] last.op = "reindex" \/ (last.op = "checkIndex" /\ last.reindexCalls > 0) ->
                {r \in DOMAIN index : r.languageCode = last.languageCode}
           [] OTHER -> {}

C4_FacetUnionLaw == \A r \in JustWritten : UnionLaw(r)

\* a record was written of a variant and a product that both carry facet
\* values, one of them in common
C4_Witness ==
    \E r \in JustWritten :
        \E p \in ParentOf(r.productVariantId) :
            /\ variants[r.productVariantId].facetValues \cap products[p].facetValues # {}
            /\ variants[r.productVariantId].facetValues # products[p].facetValues
            /\ UnionLaw(r)

(***************************************************************************)
(* C5.  A reindex of a language that runs to completion leaves, for that   *)
(* language, exactly one record per variant whose parent product is not    *)
(* soft-deleted and none else, leaves the records of the other languages   *)
(* as they were, and reports success with indexedItemCount the number of   *)
(* records written.                                                        *)
(***************************************************************************)
C5_ReindexRebuildsLanguage ==
    [][(ReindexStep /\ ~last'.threw)
       => LET l == last'.languageCode
          IN /\ \A v \in DOMAIN variants :
                    Copies(index', v, l) = IF ParentLive(v) THEN 1 ELSE 0
             /\ \A r \in DOMAIN OfLanguage(index', l) : r.productVariantId \in DOMAIN variants
             /\ NotOfLanguage(index', l) = NotOfLanguage(index, l)
             /\ last'.report = {[success |-> TRUE,
                                 indexedItemCount |-> count(index', l)]}]_vars

\* a reindex ran to completion, wrote records, and a product is soft-deleted
C5_Witness ==
    /\ last.op = "reindex" /\ ~last.threw
    /\ count(index, last.languageCode) > 0
    /\ \E v \in DOMAIN variants : ParentDeleted(v)
    /\ \E r \in DOMAIN index : r.languageCode # last.languageCode

(***************************************************************************)
(* C6.  checkIndex(lang) calls reindex(lang) exactly once when the index   *)
(* holds no record of lang, whatever it holds of other languages; when it  *)
(* holds a record of lang it calls no reindex and leaves the index as it   *)
(* is.                                                                     *)
(***************************************************************************)
C6_CheckIndexReindexesWhenEmpty ==
    [][CheckIndexStep
       => LET l == last'.languageCode
          IN IF count(index, l) = 0
             THEN /\ last'.reindexCalls = 1
                  /\ index' = reindex(index, l).index
                  /\ NotOfLanguage(index', l) = NotOfLanguage(index, l)
             ELSE /\ last'.reindexCalls = 0
                  /\ index' = index]_vars

\* checkIndex has reindexed a language while the index held records of
\* another language
C6_Witness ==
    /\ last.op = "checkIndex" /\ last.reindexCalls = 1
    /\ \E r \in DOMAIN index : r.languageCode # last.languageCode

(***************************************************************************)
(* C7, as claimed.  For every catalog, checkIndex(lang) right after a      *)
(* reindex(lang) that ran to completion calls no second reindex and leaves *)
(* the index as it is.                                                     *)
(***************************************************************************)
C7_CheckAfterReindexIsNoOp ==
    [][(CheckIndexStep /\ last'.afterReindex)
       => (last'.reindexCalls = 0 /\ index' = index)]_vars

(***************************************************************************)
(* C7, amended.  checkIndex(lang) right after a reindex(lang) that ran to  *)
(* completion leaves the index as it is; it calls no second reindex when   *)
(* the reindex wrote at least one record, and exactly one when it wrote    *)
(* none (a catalog with no indexable variant).                             *)
(***************************************************************************)
C7_CheckAfterReindexAmended ==
    [][(CheckIndexStep /\ last'.afterReindex)
       => /\ index' = index
          /\ last'.reindexCalls = IF count(index, last'.languageCode) > 0 THEN 0 ELSE 1]_vars

\* checkIndex ran right after a completed reindex that had written records
C7_Witness ==
    /\ last.op = "checkIndex" /\ last.afterReindex
    /\ count(index, last.languageCode) > 0
    /\ last.reindexCalls = 0

(***************************************************************************)
(* C8.  When update or reindex has processed a batch holding a variant     *)
(* whose parent product is missing, a record has still been written for    *)
(* every variant of the batch whose denormalization does not fail.         *)
(***************************************************************************)
C8_FaultyVariantIsSkipped ==
    LET l == last.languageCode
        batch == CASE last.op = "update" -> BatchOfUpdate(last.entity)
                   [] last.op = "reindex" -> BatchOfReindex
                   [] OTHER -> {}
    IN (\E v \in batch : ParentOf(v) = {})
       => \A v \in batch : ~Faulty(v, l) => HasRecord(index, v, l)

(***************************************************************************)
(* C9.  The term filter applies exactly when a term of length 2 or more is *)
(* supplied: for such a term getSearchResults returns a record, and        *)
(* getTotalCount counts it, only if its SKU matches the contains-pattern   *)
(* of the term or one of its product name, variant name and description    *)
(* matches the fulltext predicate.                                         *)
(***************************************************************************)
TermMatches(r, t) ==
    \/ Like(r.sku, LikeTerm(t))
    \/ Match(r.productName, t) > 0
    \/ Match(r.productVariantName, t) > 0
    \/ Match(r.description, t) > 0

C9_TermFilterFromTwoCharacters ==
    \A t \in query.input.term :
        Len(t) >= 2 =>
            /\ query.op = "getSearchResults" =>
                  \A i \in 1..Len(query.items) : TermMatches(query.items[i], t)
            /\ query.op = "getTotalCount" =>
                  query.totalItems <=
                      Cardinality({x \in Table(index) : TermMatches(x.row, t)})

(***************************************************************************)
(* C10.  Facet filtering is conjunctive: getSearchResults returns a        *)
(* record, and getTotalCount counts it, only if its facetValueIds hold     *)
(* every id of the facetIds filter; a filter with an id no record carries  *)
(* yields the empty result and the count 0.                                *)
(***************************************************************************)
CarriesAll(r, ids) == \A k \in 1..Len(ids) : FindInSet(ids[k], r.facetValueIds)

C10_FacetFilterConjunctive ==
    \A ids \in query.input.facetIds :
        /\ query.op = "getSearchResults" =>
              /\ \A i \in 1..Len(query.items) : CarriesAll(query.items[i], ids)
              /\ (\E k \in 1..Len(ids) :
                     \A r \in DOMAIN index : ~FindInSet(ids[k], r.facetValueIds))
                 => query.items = <<>>
        /\ query.op = "getTotalCount" =>
              query.totalItems <= Cardinality({x \in Table(index) : CarriesAll(x.row, ids)})

\* a filter of two ids has returned a record while the index holds a record
\* with only one of them
C10_Witness ==
    /\ query.op = "getSearchResults"
    /\ \E ids \in query.input.facetIds :
          /\ Len(ids) = 2
          /\ \E r \in DOMAIN index :
                FindInSet(ids[1], r.facetValueIds) /\ ~FindInSet(ids[2], r.facetValueIds)
    /\ Len(query.items) > 0

(***************************************************************************)
(* C11.  On one index state, getTotalCount returns the length of the       *)
(* sequence getSearchResults selects for the same input before take and    *)
(* skip cut it: same term filter, same facet filter, same grouping.        *)
(***************************************************************************)
C11_TotalCountIsUnpaginatedLength ==
    /\ query.op = "getTotalCount" =>
          \A rows \in orderBy(index, query.input) : Len(rows) = query.totalItems
    /\ query.op = "getSearchResults" =>
          \A rows \in orderBy(index, query.input) :
              /\ Len(rows) = getTotalCount(index, query.input)
              /\ Len(query.items) <= Len(rows)

\* a count was taken of a grouped query in which the grouping folded rows and
\* the term filter dropped rows
C11_Witness ==
    /\ query.op = "getTotalCount"
    /\ query.input.groupByProduct = {TRUE}
    /\ TermApplies(query.input)
    /\ query.totalItems > 0
    /\ query.totalItems < Cardinality({x \in Table(index) : Where(query.input, x.row)})
    /\ Cardinality({x \in Table(index) : Where(query.input, x.row)}) < BagCardinality(index)

(***************************************************************************)
(* C12.  getFacetValueIds returns the duplicate-free union of the          *)
(* facetValueIds of all records that match the term filter of the input,   *)
(* whatever its facetIds filter: the same ids as for the input with        *)
(* facetIds removed.                                                       *)
(***************************************************************************)
C12_FacetValueIdsIgnoreFacetFilter ==
    query.op = "getFacetValueIds" =>
        LET noFacets == [query.input EXCEPT !.facetIds = {}]
        IN /\ NoDuplicates(query.facetValueIds)
           /\ Range(query.facetValueIds) =
                  UNION {Range(x.row.facetValueIds) :
                         x \in {y \in Table(index) : Where(noFacets, y.row)}}
           /\ \E ids \in strategyGetFacetValueIds(index, noFacets) :
                  Range(ids) = Range(query.facetValueIds)

(***************************************************************************)
(* C13.  getSearchResults returns exactly the elements at positions        *)
(* skip .. skip+take-1 of the filtered, ordered and grouped sequence, so   *)
(* never more than take items, for every skip >= 0 and take >= 0; skip is  *)
(* 0 and take 25 only when the input does not supply them.                 *)
(***************************************************************************)
C13_PageIsSkipTake ==
    query.op = "getSearchResults" =>
        LET take == IF query.input.take = {} THEN 25 ELSE CHOOSE n \in query.input.take : TRUE
            skip == IF query.input.skip = {} THEN 0 ELSE CHOOSE n \in query.input.skip : TRUE
        IN /\ Len(query.items) <= take
           /\ \E rows \in orderBy(index, query.input) :
                 /\ Len(query.items) =
                        IF Len(rows) <= skip THEN 0
                        ELSE IF Len(rows) - skip < take THEN Len(rows) - skip ELSE take
                 /\ \A i \in 1..Len(query.items) : query.items[i] = rows[skip + i].row

(***************************************************************************)
(* C14.  With groupByProduct set, getSearchResults returns at most one row *)
(* per productId among the records matching the filters, grouped before    *)
(* skip and take cut the sequence, and getTotalCount returns the number of *)
(* distinct productIds among the matching records.                         *)
(***************************************************************************)
Matching(idx, input) == {x \in Table(idx) : Where(input, x.row)}

C14_GroupedByProduct ==
    query.input.groupByProduct = {TRUE} =>
        LET matching == Matching(index, query.input)
            productIds == {x.row.productId : x \in matching}
            take == IF query.input.take = {} THEN 25 ELSE CHOOSE n \in query.input.take : TRUE
            skip == IF query.input.skip = {} THEN 0 ELSE CHOOSE n \in query.input.skip : TRUE
            left == IF Cardinality(productIds) <= skip THEN 0
                    ELSE Cardinality(productIds) - skip
        IN /\ query.op = "getSearchResults" =>
                 /\ \A i, j \in 1..Len(query.items) :
                        i # j => query.items[i].productId # query.items[j].productId
                 /\ \A i \in 1..Len(query.items) : \E x \in matching : x.row = query.items[i]
                 /\ query.input.take # {0} =>
                        Len(query.items) = IF left < take THEN left ELSE take
           /\ query.op = "getTotalCount" => query.totalItems = Cardinality(productIds)

\* a grouped query skipped one product and returned the next, while two
\* matching records belong to one product
C14_Witness ==
    /\ query.op = "getSearchResults"
    /\ query.input.groupByProduct = {TRUE}
    /\ query.input.skip = {1}
    /\ Len(query.items) = 1
    /\ \E x, y \in Matching(index, query.input) :
          x # y /\ x.row.productId = y.row.productId

(***************************************************************************)
(* C15.  When a ranking term (a term of length 2 or more) is supplied, the *)
(* results come in order of non-increasing score, the score being 10 if    *)
(* the SKU contains the term, plus 2, 1.5 and 1 times the fulltext rank of *)
(* product name, variant name and description; the name sort and then the  *)
(* price sort the input asks for only break ties of the score.             *)
(***************************************************************************)
\* twice the score of the claim
ClaimedScore2(r, t) ==
    (IF Like(r.sku, LikeTerm(t)) THEN 20 ELSE 0)
    + 4 * Match(r.productName, t)
    + 3 * Match(r.productVariantName, t)
    + 2 * Match(r.description, t)

\* a is not after b in direction dir (no direction asked: any order)
InDirection(dir, aBeforeB, bBeforeA) ==
    CASE dir = {"ASC"} -> ~bBeforeA
      [] dir = {"DESC"} -> ~aBeforeB
      [] OTHER -> TRUE

C15_OrderedByScoreThenSorts ==
    \A t \in query.input.term :
        (Len(t) >= 2 /\ query.op = "getSearchResults") =>
            \A i, j \in 1..Len(query.items) :
                i < j =>
                    LET a == query.items[i]
                        b == query.items[j]
                        nameDir == UNION {srt.name : srt \in query.input.sort}
                        priceDir == UNION {srt.price : srt \in query.input.sort}
                        na == Join(a.productName)
                        nb == Join(b.productName)
                    IN /\ ClaimedScore2(a, t) >= ClaimedScore2(b, t)
                       /\ ClaimedScore2(a, t) = ClaimedScore2(b, t) =>
                             /\ InDirection(nameDir, StringLess(na, nb), StringLess(nb, na))
                             /\ (nameDir # {} => na = nb) =>
                                   InDirection(priceDir, a.price < b.price, b.price < a.price)

(***************************************************************************)
(* C16.  The constructor selects exactly one strategy from the database    *)
(* type (mysql or mariadb: MySQL, sqlite or sqljs: SQLite, postgres:       *)
(* Postgres); for every other type it throws the not-supported error and   *)
(* leaves no instance, no strategy, and so no query is ever run.           *)
(***************************************************************************)
C16_StrategyByDatabaseType ==
    service # NotConstructed =>
        /\ service.type \in {"mysql", "mariadb"} =>
              service.searchStrategy = {"MysqlSearchStrategy"}
        /\ service.type \in {"sqlite", "sqljs"} =>
              service.searchStrategy = {"SqliteSearchStrategy"}
        /\ service.type = "postgres" =>
              service.searchStrategy = {"PostgresSearchStrategy"}
        /\ service.type \in {"mysql", "mariadb", "sqlite", "sqljs", "postgres"} =>
              service.instance /\ service.threw = {}
        /\ service.type \notin {"mysql", "mariadb", "sqlite", "sqljs", "postgres"} =>
              /\ service.threw # {}
              /\ ~service.instance
              /\ service.searchStrategy = {}
              /\ query = NoQuery

\* the constructor has thrown for a type the switch does not name
C16_Witness ==
    /\ service.type = "mongodb"
    /\ service.threw = {"error.database-not-supported-by-default-search-plugin"}
    /\ ~service.instance

(***************************************************************************)
(* C17.  Once update has handled the notification of a product variant     *)
(* that has been removed from the catalog, and nothing is left to handle,  *)
(* the index holds no record of that variant.                              *)
(***************************************************************************)
C17_NoRecordOfRemovedVariant ==
    (/\ Quiescent
     /\ last.op = "update"
     /\ last.entity.type = "ProductVariant"
     /\ last.entity.id \in VariantIds \ DOMAIN variants)
    => \A l \in Languages : ~HasRecord(index, last.entity.id, l)

(***************************************************************************)
(* C18.  The removal step of update is a composite-key delete: handling a  *)
(* notification in language L deletes exactly the records with key (a      *)
(* removed variant id, L); records of other variants and records of other  *)
(* languages stay as they are, and when no variant id is removed no record *)
(* is deleted.                                                             *)
(***************************************************************************)
\* the variant ids update(ctx, entity) takes as removed
RemovedByUpdate(entity) ==
    IF /\ entity.type = "Product"
       /\ \E p \in {entity.id} \cap DOMAIN products : products[p].deletedAt
    THEN VariantsOf(entity.id)
    ELSE {}

C18_RemovalIsCompositeKeyDelete ==
    [][UpdateStep
       => LET l == last'.languageCode
              removed == RemovedByUpdate(last'.entity)
          IN /\ NotOfLanguage(index', l) = NotOfLanguage(index, l)
             /\ removed # {} =>
                   index' = Rows(index, {r \in DOMAIN index :
                                            ~(r.productVariantId \in removed
                                              /\ r.languageCode = l)})
             /\ removed = {} =>
                   \A r \in DOMAIN index :
                       HasRecord(index', r.productVariantId, r.languageCode)]_vars

\* update has handled the notification of a soft-deleted product: its
\* variants have no record in the notification's language and still have
\* one in another language, beside a record of another product's variant in
\* the notification's language
C18_Witness ==
    /\ last.op = "update" /\ ~last.threw
    /\ RemovedByUpdate(last.entity) # {}
    /\ \A v \in RemovedByUpdate(last.entity) : ~HasRecord(index, v, last.languageCode)
    /\ \E r \in DOMAIN index : /\ r.productVariantId \in RemovedByUpdate(last.entity)
                               /\ r.languageCode # last.languageCode
    /\ \E r \in DOMAIN index : /\ r.productVariantId \notin RemovedByUpdate(last.entity)
                               /\ r.languageCode = last.languageCode

\* every call has returned or rejected
AllCompleted == \A i \in DOMAIN calls : Completed(i)

\* the reindex calls of language l
ReindexCallsOf(l) ==
    {i \in DOMAIN calls : calls[i].op = "reindex" /\ calls[i].languageCode = l}

(***************************************************************************)
(* C19.  reindex is safely restartable: over a catalog that does not       *)
(* change, when two or more reindex calls of one language are made, then   *)
(* however their getMany, delete and save steps interleave, once all of    *)
(* them have completed the index is the one a single uninterrupted reindex *)
(* of that language leaves (no record missing, none twice); and whenever   *)
(* a call is in flight, every call made comes to completion.               *)
(***************************************************************************)
C19_ReindexRestartable ==
    /\ [](\A l \in Languages :
             (/\ Cardinality(ReindexCallsOf(l)) >= 2
              /\ \A i \in ReindexCallsOf(l) : Completed(i))
             => index = reindex(index, l).index)
    /\ ~AllCompleted ~> AllCompleted

\* two reindex calls of one language, the second made while the first was in
\* flight, have both returned and the index holds records of that language
C19_Witness ==
    /\ \E l \in Languages : Cardinality(ReindexCallsOf(l)) >= 2 /\ count(index, l) > 0
    /\ \A i \in DOMAIN calls : calls[i].pc = "done"
    /\ \E i \in DOMAIN calls : calls[i].overlaps

\* the update calls made for entity e in language l
UpdateCallsOf(l, e) ==
    {i \in DOMAIN calls : /\ calls[i].op = "update"
                          /\ calls[i].languageCode = l
                          /\ calls[i].entity = e}

\* every call is a completed update for e in l, and there are two or more
HandledInTurn(l, e) ==
    /\ Len(calls) >= 2
    /\ UpdateCallsOf(l, e) = DOMAIN calls
    /\ AllCompleted

(***************************************************************************)
(* C20.  Notifications for the same variant or product are processed in    *)
(* emission order: when two or more mutations of one entity were each      *)
(* followed by a notification in one language, then however the read and   *)
(* write steps of the update handlers interleave, once all handlers have   *)
(* completed the index records reflect the catalog as it is after the last *)
(* mutation: handling the notification once more changes nothing.          *)
(***************************************************************************)
C20_HandledInEmissionOrder ==
    \A i \in DOMAIN calls :
        HandledInTurn(calls[i].languageCode, calls[i].entity)
        => index = update(index, calls[i].languageCode, calls[i].entity).index

\* the record the current catalog calls for under the key (v, l): the empty
\* set when the denormalization of v in l fails
RecordOf(v, l) ==
    UNION {SearchIndexItem(t, l) : t \in translateDeep(VariantEntity(v), l)}

\* the rows of idx under the key (v, l)
RowsOfKey(idx, v, l) ==
    Rows(idx, {r \in DOMAIN idx : r.productVariantId = v /\ r.languageCode = l})

\* the step is the handling of a notification for a product that exists and
\* is not soft-deleted
LiveProductUpdateStep ==
    /\ UpdateStep
    /\ last'.entity.type = "Product"
    /\ \E p \in {last'.entity.id} \cap DOMAIN products : ~products[p].deletedAt

(***************************************************************************)
(* C21.  When update has handled a notification for a product that exists  *)
(* and is not soft-deleted, every variant of that product that can be      *)
(* denormalized in the notification's language has exactly the record the  *)
(* current catalog calls for, and the records of the variants of other     *)
(* products are as they were.                                              *)
(***************************************************************************)
C21_LiveProductUpdateWritesItsVariants ==
    [][LiveProductUpdateStep
       => LET l == last'.languageCode
              own == VariantsOf(last'.entity.id)
          IN /\ \A v \in own :
                    ~Faulty(v, l) => RowsOfKey(index', v, l) = SetToBag(RecordOf(v, l))
             /\ Rows(index', {r \in DOMAIN index' : r.productVariantId \notin own})
                    = Rows(index, {r \in DOMAIN index : r.productVariantId \notin own})]_vars

\* the items call i makes of the variants it has loaded (the two maps of
\* saveSearchIndexItems), and whether one of them throws
ItemsOf(i) ==
    [k \in 1..Len(calls[i].loaded) |->
        UNION {SearchIndexItem(t, calls[i].languageCode) :
               t \in translateDeep(calls[i].loaded[k], calls[i].languageCode)}]
Rejects(i) == \E k \in 1..Len(calls[i].loaded) : ItemsOf(i)[k] = {}

\* the record call i writes for variant v: none when it has not loaded v (a
\* removal, or a reindex that did not see v) or when its batch throws
WrittenBy(i, v) ==
    IF Rejects(i) THEN {}
    ELSE UNION {ItemsOf(i)[k] : k \in {n \in 1..Len(calls[i].loaded) : calls[i].loaded[n].id = v}}

\* the variants whose records update call u is about to write or remove
TouchedBy(u) ==
    {calls[u].loaded[k].id : k \in 1..Len(calls[u].loaded)}
    \cup Range(calls[u].removedVariantIds)

\* update call u is at its write (save or remove) of the record of v, reindex
\* call r of the same language has loaded its variants and not yet deleted,
\* and the two would leave different records of v
Poised(u, r, v) ==
    /\ At(r, "reindex", "delete")
    /\ calls[u].op = "update" /\ calls[u].pc \in {"save", "remove"}
    /\ calls[u].languageCode = calls[r].languageCode
    /\ v \in TouchedBy(u)
    /\ ~Rejects(u)
    /\ WrittenBy(r, v) # WrittenBy(u, v)

\* the write step of an update call
WriteStep(u) == Save(u) \/ UpdateRemove(u)

\* both calls have completed and the record of v is as the update left it
UpdateStands(u, r, v) ==
    /\ Completed(u) /\ Completed(r)
    /\ RowsOfKey(index, v, calls[u].languageCode) = SetToBag(WrittenBy(u, v))

\* both calls have completed and the record of v is as the reindex left it
ReindexStands(u, r, v) ==
    /\ Completed(u) /\ Completed(r)
    /\ RowsOfKey(index, v, calls[u].languageCode) = SetToBag(WrittenBy(r, v))

(***************************************************************************)
(* C22.  When an incremental update runs concurrently with a reindex of    *)
(* the same language, both outcomes are reachable: from every state where  *)
(* the update is at its write and the reindex has loaded its variants,     *)
(* there is an interleaving after which the update's record (or removal)   *)
(* stands, and one after which the reindex has overwritten or deleted it   *)
(* (a soft-delete's removal is undone when the reindex loaded the variants *)
(* before the soft-delete and writes them after the removal).              *)
(***************************************************************************)
C22_BothOutcomesReachable ==
    \A u \in DOMAIN calls, r \in DOMAIN calls, v \in VariantIds :
        Poised(u, r, v) =>
            /\ ENABLED (ReindexDelete(r) /\
                  (ENABLED (Save(r) /\
                     (ENABLED (WriteStep(u) /\ UpdateStands(u, r, v)'))'))')
            /\ ENABLED (WriteStep(u) /\
                  (ENABLED (ReindexDelete(r) /\
                     (ENABLED (Save(r) /\ ReindexStands(u, r, v)'))'))')

\* a reindex has loaded the variants of a product that was soft-deleted
\* afterwards; the soft-delete's handler is at its removal of their records
C22_Witness ==
    \E u \in DOMAIN calls, r \in DOMAIN calls, v \in VariantIds :
        /\ Poised(u, r, v)
        /\ calls[u].pc = "remove"
        /\ ParentDeleted(v)
        /\ WrittenBy(r, v) # {}
        /\ HasRecord(index, v, calls[u].languageCode)

(***************************************************************************)
(* C23.  The response of search is self-consistent also when writes of the *)
(* index fall between its two reads: the number of items it returns is at  *)
(* most the totalItems it returns.                                         *)
(***************************************************************************)
C23_ItemsAtMostTotalItems ==
    query.op = "search" => Len(query.items) <= query.totalItems

\* the notifications handed to update for product p in language l, and the
\* softDelete calls of p in l that have returned
EventsOf(l, p) ==
    {i \in DOMAIN calls : /\ calls[i].op = "update"
                          /\ calls[i].languageCode = l
                          /\ calls[i].entity = [type |-> "Product", id |-> p]}
ReturnedSoftDeletes(l, p) ==
    {i \in SoftDeleteCalls : /\ calls[i].languageCode = l
                              /\ calls[i].entity.id = p
                              /\ calls[i].pc = "done"}

(***************************************************************************)
(* C24.  softDelete persists deletedAt before it publishes, and publishes  *)
(* one event per call that returns: whenever update handles such an event  *)
(* the product row carries deletedAt, and the product update reloads is    *)
(* soft-deleted.  For an id of no row softDelete rejects at                *)
(* getEntityOrThrow, no row changes and no event is published.             *)
(***************************************************************************)
C24_SoftDeletePersistsThenPublishes ==
    /\ \A i \in DOMAIN calls :
          calls[i].op = "update" =>
              /\ calls[i].entity.id \in DOMAIN products
              /\ products[calls[i].entity.id].deletedAt
              /\ calls[i].pc # "findOne" =>
                    /\ calls[i].product # {}
                    /\ \A p \in calls[i].product : p.deletedAt
              /\ calls[i].pc # "findByIds"
    /\ \A l \in Languages, p \in SoftDeleteIds :
          Cardinality(EventsOf(l, p)) = Cardinality(ReturnedSoftDeletes(l, p))
    /\ \A i \in SoftDeleteCalls :
          /\ calls[i].entity.id \notin DOMAIN products
                => calls[i].pc \in {"getEntityOrThrow", "threw"}
          /\ calls[i].entity.id \in DOMAIN products => calls[i].pc # "threw"
    /\ DOMAIN products = ProductIds
    /\ \A p \in DOMAIN products :
          products[p].deletedAt
              => \E i \in SoftDeleteCalls : /\ calls[i].entity.id = p
                                             /\ calls[i].pc \in {"publish", "done"}

\* a softDelete of a product has returned and update has reloaded the
\* product as soft-deleted; a softDelete of an id of no row has rejected
C24_Witness ==
    /\ \E i \in SoftDeleteCalls : calls[i].pc = "threw"
    /\ \E i \in SoftDeleteCalls : calls[i].pc = "done"
    /\ \E i \in DOMAIN calls : /\ calls[i].op = "update"
                                 /\ calls[i].pc \in {"remove", "done"}
                                 /\ \E p \in calls[i].product : p.deletedAt

=============================================================================
